---- MODULE Spec2Model ----
(***************************************************************************)
(* Model of jsonschema_gen: the schema nodes of schema.py with their       *)
(* canonical form (json_repr), and the annotation parser of parsers.py     *)
(* (Parser.parse_annotation, Parser.parse_function and the type parsers    *)
(* registered in TYPES).                                                    *)
(*                                                                         *)
(* Python values are tagged records: None, Ellipsis, str, int, bool, list, *)
(* dict (an ordered sequence of key/value pairs, as Python dicts keep      *)
(* insertion order) and object (an instance with its class name and its    *)
(* vars()).  Type descriptors (annotations) are records with a field k.    *)
(***************************************************************************)
EXTENDS Integers, Sequences, FiniteSets, TLC

VARIABLES python, parser, op, annotation, default, func, cls, result, repr

vars == <<python, parser, op, annotation, default, func, cls, result, repr>>

-----------------------------------------------------------------------------
(* Bounds of the model.                                                    *)

MaxDepth == 2

MaxParams == 2

\* the largest number of attributes in the body of a class
MaxMembers == 3

\* the number of nested parse_annotation calls the interpreter's call stack holds
\* (sys.getrecursionlimit() counts frames; a smaller number of calls shows the same)
RecursionLimit == 10

-----------------------------------------------------------------------------
(* Python values.                                                          *)

None == [t |-> "None"]

Ellipsis == [t |-> "Ellipsis"]

Str(s) == [t |-> "str", s |-> s]

PyInt(i) == [t |-> "int", i |-> i]

PyBool(b) == [t |-> "bool", b |-> b]

List(l) == [t |-> "list", l |-> l]

Dict(kv) == [t |-> "dict", kv |-> kv]

Obj(c, v) == [t |-> "object", cls |-> c, vars |-> v]

KV(key, value) == [k |-> key, v |-> value]

\* str.startswith
startswith(s, prefix) ==
    Len(prefix) <= Len(s) /\ SubSeq(s, 1, Len(prefix)) = prefix

\* key in d (d an ordered sequence of key/value pairs)
HasKey(kv, key) == \E i \in 1..Len(kv) : kv[i].k = key

\* d[key]
Get(kv, key) == kv[CHOOSE i \in 1..Len(kv) : kv[i].k = key].v

\* d[key] = value: replaces the value of an existing key in place, appends a new key
Put(kv, key, value) ==
    IF HasKey(kv, key)
    THEN [i \in 1..Len(kv) |-> IF kv[i].k = key THEN KV(key, value) ELSE kv[i]]
    ELSE Append(kv, KV(key, value))

\* setattr(obj, key, value)
setattr(o, key, value) == Obj(o.cls, Put(o.vars, key, value))

hasattr(o, key) == o.t = "object" /\ HasKey(o.vars, key)

getattr(o, key) == Get(o.vars, key)

-----------------------------------------------------------------------------
(* schema.py: the dataclass fields of every node class, in definition      *)
(* order, with their default values.                                       *)

CommonFields == <<KV("title", None), KV("description", None), KV("examples", None), KV("default", Ellipsis)>>

StringFields(format) ==
    <<KV("minLength", None), KV("maxLength", None), KV("pattern", None), KV("format", format),
      KV("title", None), KV("description", None), KV("examples", None), KV("enum", None),
      KV("default", Ellipsis)>>

NumericFields ==
    <<KV("multipleOf", None), KV("minimum", None), KV("maximum", None),
      KV("exclusiveMinimum", None), KV("exclusiveMaximum", None),
      KV("title", None), KV("description", None), KV("examples", None), KV("enum", None),
      KV("default", Ellipsis)>>

ArrayFields ==
    <<KV("items", None), KV("prefixItems", None), KV("contains", None),
      KV("additionalItems", None), KV("uniqueItems", None), KV("minItems", None),
      KV("maxItems", None), KV("title", None), KV("description", None),
      KV("examples", None), KV("enum", None), KV("default", Ellipsis)>>

ObjectFields ==
    <<KV("properties", None), KV("patternProperties", None), KV("additionalProperties", None),
      KV("minProperties", None), KV("maxProperties", None), KV("required", None),
      KV("title", None), KV("description", None), KV("examples", None), KV("enum", None),
      KV("default", Ellipsis)>>

EnumFields == <<KV("enum", None)>> \o CommonFields

ConstFields == <<KV("const", None), KV("title", None), KV("description", None)>>

BooleanFields == <<KV("title", None), KV("description", None), KV("default", Ellipsis)>>

Fields(c) ==
    CASE c = "JSONSchemaObject" -> CommonFields
      [] c = "Enum" -> EnumFields
      [] c = "Null" -> EnumFields
      [] c = "Const" -> ConstFields
      [] c = "Boolean" -> BooleanFields
      [] c = "String" -> StringFields(None)
      [] c = "DateTime" -> StringFields(Str("date-time"))
      [] c = "Date" -> StringFields(None)
      [] c = "GUID" -> StringFields(None)
      [] c = "Email" -> StringFields(None)
      [] c = "Number" -> NumericFields
      [] c = "Integer" -> NumericFields
      [] c = "Array" -> ArrayFields
      [] c = "Object" -> ObjectFields
      [] OTHER -> <<KV("items", None)>>

\* __post_init__ of Date, GUID, Email and Null
post_init(o) ==
    CASE o.cls = "Date" -> setattr(o, "format", Str("date"))
      [] o.cls = "GUID" -> setattr(o, "format", Str("uuid"))
      [] o.cls = "Email" -> setattr(o, "format", Str("email"))
      [] o.cls = "Null" -> setattr(o, "enum", List(<<None>>))
      [] OTHER -> o

\* the generated __init__ of a node dataclass: cls(**kwargs)
New(c, kwargs) ==
    LET F == Fields(c)
    IN  post_init(Obj(c, [i \in 1..Len(F) |->
            IF HasKey(kwargs, F[i].k) THEN KV(F[i].k, Get(kwargs, F[i].k)) ELSE F[i]]))

\* the fields declared with field(init=False): the generated __init__ has no such parameter
InitFalse(c) == IF c \in {"Date", "GUID", "Email"} THEN {"format"} ELSE {}

\* the keyword is a parameter of the generated __init__ of the node class
accepted(c, key) == HasKey(Fields(c), key) /\ key \notin InitFalse(c)

\* the discriminator a node class's json_repr adds, "" when it adds none
TypeName(c) ==
    CASE c \in {"String", "DateTime", "Date", "GUID", "Email"} -> "string"
      [] c = "Boolean" -> "boolean"
      [] c = "Number" -> "number"
      [] c = "Integer" -> "integer"
      [] c = "Array" -> "array"
      [] c = "Object" -> "object"
      [] OTHER -> ""

Combinator(c) ==
    CASE c = "AnyOf" -> "anyOf"
      [] c = "OneOf" -> "oneOf"
      [] c = "AllOf" -> "allOf"
      [] OTHER -> ""

RECURSIVE json_repr(_), serialize_schema_value(_), serialize_schema_keys(_)

\* _serialize_schema_keys: drops private keys and values that are None or Ellipsis
KeepKey(e) == ~startswith(e.k, "_") /\ e.v # None /\ e.v # Ellipsis

serialize_schema_keys(kv) ==
    LET kept == SelectSeq(kv, KeepKey)
    IN  Dict([i \in 1..Len(kept) |-> KV(kept[i].k, serialize_schema_value(kept[i].v))])

serialize_schema_value(value) ==
    CASE value.t = "dict" -> serialize_schema_keys(value.kv)
      [] value.t = "list" -> List([i \in 1..Len(value.l) |-> serialize_schema_value(value.l[i])])
      [] value.t = "object" -> json_repr(value)
      [] OTHER -> value

json_repr(o) ==
    IF Combinator(o.cls) # ""
    THEN LET items == getattr(o, "items").l
         IN  Dict(<<KV(Combinator(o.cls), List([i \in 1..Len(items) |-> json_repr(items[i])]))>>)
    ELSE IF TypeName(o.cls) # ""
    THEN Dict(Put(serialize_schema_keys(o.vars).kv, "type", Str(TypeName(o.cls))))
    ELSE serialize_schema_keys(o.vars)

-----------------------------------------------------------------------------
(* Type descriptors: what a caller passes as an annotation.                *)

Class(n) == [k |-> "class", n |-> n]

\* typing converts a None type argument to type(None)
type_check(arg) == IF arg = [t |-> "None"] THEN Class("NoneType") ELSE arg

\* a parameterised generic alias such as typing.List[str]
Alias(n, origin, args) ==
    [k |-> "alias", n |-> n, origin |-> Class(origin), hasargs |-> TRUE,
     args |-> [i \in 1..Len(args) |-> type_check(args[i])]]

\* an unparameterised typing alias such as typing.List: it has an origin and no __args__
Bare(n, origin) ==
    [k |-> "alias", n |-> n, origin |-> Class(origin), hasargs |-> FALSE, args |-> <<>>]

TypeVar(n, bound) == [k |-> "TypeVar", n |-> n, bound |-> bound]

NewType(n, supertype) == [k |-> "NewType", n |-> n, supertype |-> supertype]

Literal(values) == [k |-> "Literal", origin |-> Class("typing.Literal"), args |-> values]

ForwardRef(arg) == [k |-> "ForwardRef", arg |-> arg]

\* the annotations of a TypedDict or NamedTuple class body, which typing type-checks
checked(fields) == [i \in 1..Len(fields) |-> [k |-> fields[i].k, v |-> type_check(fields[i].v)]]

TypedDict(n, total, fields, required_keys, doc) ==
    [k |-> "TypedDict", n |-> n, total |-> total, fields |-> checked(fields),
     required_keys |-> required_keys, doc |-> doc]

NamedTuple(n, fields, annotations, defaults, doc) ==
    [k |-> "NamedTuple", n |-> n, fields |-> fields, annotations |-> checked(annotations),
     defaults |-> defaults, doc |-> doc]

EnumType(n, members, doc) == [k |-> "EnumType", n |-> n, members |-> members, doc |-> doc]

EnumMember(c, name, value) == [k |-> "EnumMember", cls |-> c, name |-> name, value |-> value]

Dataclass(n, fields, doc) == [k |-> "Dataclass", n |-> n, fields |-> fields, doc |-> doc]

\* dataclasses.MISSING
MISSING == [t |-> "MISSING"]

\* a dataclass field declared with a default value, or with none (dflt = MISSING)
Field(name, type, dflt) ==
    [name |-> name, type |-> type, default |-> dflt, default_factory |-> MISSING]

\* a dataclass field declared with field(default_factory=factory)
FactoryField(name, type, factory) ==
    [name |-> name, type |-> type, default |-> MISSING, default_factory |-> factory]

\* inspect._empty, also inspect.Parameter.empty
empty == Class("inspect._empty")

typing_Any == Class("typing.Any")

AnyStr == TypeVar("AnyStr", None)

\* the arguments of typing.Union[...] as typing keeps them: the arguments of a nested
\* union are spliced in and an argument that occurred before is dropped
RECURSIVE union_args(_, _)
union_args(args, kept) ==
    IF Len(args) = 0 THEN kept
    ELSE LET a == type_check(Head(args))
         IN  IF "k" \in DOMAIN a /\ a.k \in {"alias", "UnionType"}
                 /\ (a.k = "UnionType" \/ a.origin = Class("typing.Union"))
             THEN union_args(a.args \o Tail(args), kept)
             ELSE IF \E i \in 1..Len(kept) : kept[i] = a THEN union_args(Tail(args), kept)
             ELSE union_args(Tail(args), Append(kept, a))

\* typing.Union[args]; a union of one type is that type
Union(args) ==
    IF Len(union_args(args, <<>>)) = 1 THEN union_args(args, <<>>)[1]
    ELSE Alias("typing.Union", "typing.Union", union_args(args, <<>>))

\* X | Y, a types.UnionType (Python 3.10 and later): it has __args__ and no __origin__
UnionType(args) ==
    [k |-> "UnionType", n |-> "types.UnionType", hasargs |-> TRUE,
     args |-> union_args(args, <<>>)]

Required(a) == Alias("typing.Required", "typing.Required", <<a>>)

NotRequired(a) == Alias("typing.NotRequired", "typing.NotRequired", <<a>>)

\* uuid.SafeUUID is an enumeration class
SafeUUID ==
    EnumType("SafeUUID", <<KV("safe", PyInt(0)), KV("unsafe", PyInt(-1)), KV("unknown", None)>>, None)

\* the kind of a descriptor; a plain Python value used as one has its value tag as kind
Kind(d) == IF "k" \in DOMAIN d THEN d.k ELSE d.t

\* utils.get_origin: getattr(value, '__origin__', None)
get_origin(d) == IF Kind(d) \in {"alias", "Literal"} THEN d.origin ELSE None

\* utils.get_args: getattr(value, '__args__', None); has_args is "get_args(d) is not None"
has_args(d) == Kind(d) \in {"Literal", "UnionType"} \/ (Kind(d) = "alias" /\ d.hasargs)

get_args(d) == IF has_args(d) THEN d.args ELSE <<>>

\* utils.is_union; a value of type UnionType exists on Python 3.10 and later only,
\* where compatible_py310() holds
is_union(d) == get_origin(d) = Class("typing.Union") \/ Kind(d) = "UnionType"

\* utils.is_typeddict, utils.is_namedtuple
is_typeddict(d) == Kind(d) = "TypedDict"

is_namedtuple(d) == Kind(d) = "NamedTuple"

\* dataclasses.is_dataclass: true of a dataclass and of an instance of one; every
\* schema node is an instance of a dataclass
is_dataclass(d) == Kind(d) \in {"Dataclass", "object"}

\* utils.compatible_py39, compatible_py311 (py is the running interpreter's version)
compatible_py39(py) == py >= 39

compatible_py310(py) == py >= 310

compatible_py311(py) == py >= 311

RECURSIVE FirstLine(_)
\* doc.split('\n')[0]
FirstLine(s) ==
    IF Len(s) = 0 \/ SubSeq(s, 1, 1) = "\n" THEN ""
    ELSE SubSeq(s, 1, 1) \o FirstLine(SubSeq(s, 2, Len(s)))

\* utils.get_function_summary (documentation strings of the model carry no indentation)
get_function_summary(doc) ==
    IF doc # None /\ doc.s # "" THEN Str(FirstLine(doc.s)) ELSE None

-----------------------------------------------------------------------------
(* parsers.py: the type parsers (rules), in class-definition order.        *)

TYPES ==
    <<"AnyParser", "StringParser", "UUIDParser", "DateParser", "DateTimeParser",
      "IntegerParser", "NumberParser", "BooleanParser", "NullParser", "TypeVarParser",
      "NewTypeParser", "ConstantParser", "UnionParser", "ListParser", "SetParser",
      "TupleParser", "DictParser", "TypedDictParser", "NamedTupleParser",
      "EnumValueParser", "EnumTypeParser", "DataclassParser">>

\* a registry in which the NewType rule is declared strict = False as well
RuleStrict_without_newtype(r) ==
    r \notin {"UUIDParser", "DateParser", "DateTimeParser", "NamedTupleParser",
              "EnumValueParser", "EnumTypeParser", "DataclassParser", "NewTypeParser"}

\* TypeParser.strict and its overrides
RuleStrict(r) ==
    r \notin {"UUIDParser", "DateParser", "DateTimeParser", "NamedTupleParser",
              "EnumValueParser", "EnumTypeParser", "DataclassParser"}

\* the types attribute of the rules that keep TypeParser.can_parse
RuleTypes(r) ==
    CASE r = "AnyParser" -> {typing_Any}
      [] r = "StringParser" -> {Class("str"), Class("bytes"), AnyStr}
      [] r = "UUIDParser" -> {Class("uuid.UUID"), SafeUUID}
      [] r = "DateParser" -> {Class("datetime.date")}
      [] r = "DateTimeParser" -> {Class("datetime.datetime")}
      [] r = "IntegerParser" -> {Class("int")}
      [] r = "NumberParser" -> {Class("float"), Class("decimal.Decimal"), Class("numbers.Number")}
      [] r = "BooleanParser" -> {Class("bool")}
      [] r = "NullParser" -> {None, Class("NoneType")}
      [] r = "ListParser" ->
            {Class("list"), Bare("typing.List", "list"),
             Bare("typing.Collection", "collections.abc.Collection"),
             Class("collections.abc.Collection"), Class("collections.abc.Iterable"),
             Bare("typing.Iterable", "collections.abc.Iterable")}
      [] r = "SetParser" ->
            {Class("set"), Class("frozenset"), Bare("typing.Set", "set"),
             Class("collections.abc.Set"), Bare("typing.FrozenSet", "frozenset"),
             Bare("typing.MutableSet", "collections.abc.MutableSet"),
             Class("collections.abc.MutableSet")}
      [] r = "TupleParser" -> {Class("tuple"), Bare("typing.Tuple", "tuple")}
      [] r = "DictParser" ->
            {Class("dict"), Class("collections.abc.Mapping"),
             Bare("typing.Mapping", "collections.abc.Mapping"),
             Bare("typing.MutableMapping", "collections.abc.MutableMapping"),
             Class("collections.abc.MutableMapping")}
      [] OTHER -> {}

\* the annotation attribute of the rules that keep TypeParser.parse_annotation
RuleAnnotation(r) ==
    CASE r = "AnyParser" -> "JSONSchemaObject"
      [] r = "StringParser" -> "String"
      [] r = "UUIDParser" -> "GUID"
      [] r = "DateParser" -> "Date"
      [] r = "DateTimeParser" -> "DateTime"
      [] r = "IntegerParser" -> "Integer"
      [] r = "NumberParser" -> "Number"
      [] r = "BooleanParser" -> "Boolean"
      [] r = "NullParser" -> "Null"
      [] OTHER -> "Array"

\* TypeParser.can_parse and the overrides of the rules that define their own
can_parse(r, a) ==
    CASE r = "TypeVarParser" -> Kind(a) = "TypeVar"
      [] r = "NewTypeParser" -> Kind(a) = "NewType"
      [] r = "ConstantParser" -> get_origin(a) = Class("typing.Literal")
      [] r = "UnionParser" -> is_union(a)
      [] r = "TypedDictParser" -> is_typeddict(a)
      [] r = "NamedTupleParser" -> is_namedtuple(a)
      [] r = "EnumValueParser" -> Kind(a) = "EnumMember"
      [] r = "EnumTypeParser" -> Kind(a) = "EnumType"
      [] r = "DataclassParser" -> is_dataclass(a)
      [] OTHER -> IF get_origin(a) # None THEN get_origin(a) \in RuleTypes(r)
                  ELSE a \in RuleTypes(r)

-----------------------------------------------------------------------------
(* Outcomes: a call returns a value or raises.  rule is the rule selected  *)
(* for the outermost descriptor ("fallback" for the lenient placeholder),  *)
(* used the set of rules that built some node of the returned tree and     *)
(* seen the set of descriptors Parser.parse_annotation was called with     *)
(* (after the substitution of forward references); the three record how    *)
(* the result was obtained and are not part of the node.                   *)

Ok(node, rule, tr) ==
    [ok |-> TRUE, node |-> node, err |-> "", why |-> "", rule |-> rule,
     used |-> tr.used, seen |-> tr.seen]

Raise(err, why) ==
    [ok |-> FALSE, node |-> None, err |-> err, why |-> why, rule |-> "",
     used |-> {}, seen |-> {}]

\* cls(**kwargs): TypeError for a keyword the generated __init__ does not accept
construct(c, kwargs) ==
    IF \E i \in 1..Len(kwargs) : ~accepted(c, kwargs[i].k)
    THEN Raise("TypeError", "unexpected keyword argument")
    ELSE [ok |-> TRUE, node |-> New(c, kwargs), err |-> "", why |-> "", rule |-> "",
          used |-> {}, seen |-> {}]

\* what two successive calls used and resolved
Both(h, r) == [used |-> h.used \cup r.used, seen |-> h.seen \cup r.seen]

Nothing == [used |-> {}, seen |-> {}]

\* the outcome r of a call made after the calls recorded in h
After(h, r) == [r EXCEPT !.used = h.used \cup r.used, !.seen = h.seen \cup r.seen]

RECURSIVE JoinRepr(_)
RECURSIVE PyStr(_)
\* str(annotation), as used for the title of the lenient placeholder
PyStr(d) ==
    CASE Kind(d) = "class" ->
            IF d = typing_Any THEN "typing.Any" ELSE "<class '" \o d.n \o "'>"
      [] Kind(d) = "alias" ->
            IF d.hasargs THEN d.n \o "[" \o JoinRepr(d.args) \o "]" ELSE d.n
      [] Kind(d) = "TypeVar" -> "~" \o d.n
      [] Kind(d) = "EnumMember" -> d.cls \o "." \o d.name
      [] Kind(d) = "ForwardRef" -> "ForwardRef('" \o d.arg \o "')"
      [] Kind(d) = "object" -> d.cls \o "(...)"
      [] Kind(d) \in {"None", "Ellipsis"} -> Kind(d)
      [] OTHER -> "<class '" \o d.n \o "'>"

JoinRepr(args) ==
    IF Len(args) = 0 THEN ""
    ELSE LET h == IF Kind(Head(args)) = "class" THEN Head(args).n ELSE PyStr(Head(args))
         IN  IF Len(args) = 1 THEN h ELSE h \o ", " \o JoinRepr(Tail(args))

NotEllipsis(a) == a # Ellipsis

\* a selection that scans the whole registry and keeps the last eligible rule
select_parser_last(P, a, i) ==
    LET found == {j \in i..Len(P.types) :
                     can_parse(P.types[j], a) /\ (~P.strict \/ RuleStrict(P.types[j]))}
    IN  IF found = {} THEN 0 ELSE CHOOSE j \in found : \A k \in found : k <= j

\* a selection that ignores the strict flag of the rules
RECURSIVE select_parser_any_mode(_, _, _)
select_parser_any_mode(P, a, i) ==
    IF i > Len(P.types) THEN 0
    ELSE IF ~can_parse(P.types[i], a) THEN select_parser_any_mode(P, a, i + 1)
    ELSE i

\* the index of the first rule of the registry, from i on, that can parse a and is
\* eligible in the parser's mode; 0 when there is none (the loop of Parser.parse_annotation)
RECURSIVE select_parser(_, _, _)
select_parser(P, a, i) ==
    IF i > Len(P.types) THEN 0
    ELSE IF ~can_parse(P.types[i], a) THEN select_parser(P, a, i + 1)
    ELSE IF P.strict /\ ~RuleStrict(P.types[i]) THEN select_parser(P, a, i + 1)
    ELSE i

\* self.locals.get(name, t.Any)
locals_get(P, name) == IF HasKey(P.locals, name) THEN Get(P.locals, name) ELSE typing_Any

\* ListParser.parse_annotation, lines 323-329: an AnyOf argument is replaced by its members
RECURSIVE flatten(_)
flatten(nodes) ==
    IF Len(nodes) = 0 THEN <<>>
    ELSE IF Head(nodes).cls = "AnyOf"
         THEN getattr(Head(nodes), "items").l \o flatten(Tail(nodes))
         ELSE <<Head(nodes)>> \o flatten(Tail(nodes))

\* the value F computes from the value of r, or the failure of r
Then(r, F(_)) == IF ~r.ok THEN r ELSE Ok(F(r.node), "", r)

\* h, then r: the value F computes from their values, or the first failure
Then2(h, r, F(_, _)) ==
    IF ~h.ok THEN h
    ELSE IF ~r.ok THEN After(h, r)
    ELSE Ok(F(h.node, r.node), "", Both(h, r))

RECURSIVE parse_annotation(_, _, _), parse_each(_, _), build(_, _, _), list_parse(_, _),
          typeddict_fields(_, _, _), namedtuple_fields(_, _, _), dataclass_fields(_, _)

\* TypeParser.parse_args: resolves every argument but the ellipsis marker, in order;
\* the first failure ends the call.  The nodes are returned as a list.
parse_each(P, args) ==
    IF Len(args) = 0 THEN Ok(List(<<>>), "", Nothing)
    ELSE Then2(parse_annotation(P, Head(args), Ellipsis), parse_each(P, Tail(args)),
               LAMBDA h, r : List(<<h>> \o r.l))

\* a parse_args that leaves the None alternative out
parse_args_without_none(P, args) ==
    parse_each(P, SelectSeq(SelectSeq(args, NotEllipsis), LAMBDA arg : arg # Class("NoneType")))

parse_args(P, args) == parse_each(P, SelectSeq(args, NotEllipsis))

\* ListParser.parse_annotation, line 330: the first of the flattened nodes is the item
first_item(r) ==
    IF ~r.ok THEN r
    ELSE IF Len(flatten(r.node.l)) = 0 THEN After(r, Raise("IndexError", "no item type"))
    ELSE Ok(New("Array", <<KV("items", flatten(r.node.l)[1])>>), "", r)

\* ListParser.parse_annotation
list_parse(P, a) ==
    IF ~has_args(a) THEN Ok(New("Array", <<>>), "", Nothing)
    ELSE first_item(parse_args(P, get_args(a)))

\* an is_required that does not look at the marker of the field
is_required_unmarked(P, a, key, arg) == a.total \/ key \in a.required_keys

\* TypedDictParser.parse_annotation, lines 383-402: whether the key is required
is_required(P, a, key, arg) ==
    IF compatible_py311(P.py)
    THEN IF get_origin(arg) = Class("typing.Required") THEN TRUE
         ELSE IF get_origin(arg) = Class("typing.NotRequired") THEN FALSE
         ELSE a.total \/ key \in a.required_keys
    ELSE IF compatible_py39(P.py) THEN a.total \/ key \in a.required_keys
    ELSE a.total

\* TypedDictParser.parse_annotation: the annotation of a field without its marker
unmarked(P, arg) ==
    IF compatible_py311(P.py)
        /\ get_origin(arg) \in {Class("typing.Required"), Class("typing.NotRequired")}
    THEN get_args(arg)[1]
    ELSE arg

\* the loop of TypedDictParser.parse_annotation over the fields from index i on;
\* returns the pair (properties, required) as a two-element list
typeddict_fields(P, a, i) ==
    IF i > Len(a.fields) THEN Ok(List(<<Dict(<<>>), List(<<>>)>>), "", Nothing)
    ELSE Then2(parse_annotation(P, unmarked(P, a.fields[i].v), Ellipsis),
               typeddict_fields(P, a, i + 1),
               LAMBDA h, r :
                   List(<<Dict(<<KV(a.fields[i].k, h)>> \o r.l[1].kv),
                          List((IF is_required(P, a, a.fields[i].k, a.fields[i].v)
                                THEN <<Str(a.fields[i].k)>> ELSE <<>>) \o r.l[2].l)>>))

\* NamedTupleParser.parse_annotation, lines 417-420: the title and the default of an item
namedtuple_item(a, key, node) ==
    IF HasKey(a.defaults, key)
    THEN setattr(setattr(node, "title", Str(key)), "default", Get(a.defaults, key))
    ELSE setattr(node, "title", Str(key))

\* the loop of NamedTupleParser.parse_annotation over _fields from index i on
namedtuple_fields(P, a, i) ==
    IF i > Len(a.fields) THEN Ok(List(<<>>), "", Nothing)
    ELSE Then2(IF HasKey(a.annotations, a.fields[i])
               THEN parse_annotation(P, Get(a.annotations, a.fields[i]), Ellipsis)
               ELSE Ok(New("JSONSchemaObject", <<>>), "", Nothing),
               namedtuple_fields(P, a, i + 1),
               LAMBDA h, r : List(<<namedtuple_item(a, a.fields[i], h)>> \o r.l))

\* the loop of DataclassParser.parse_annotation over fields(annotation) from index i on;
\* returns the pair (properties, required) as a two-element list
dataclass_fields(P, fields) ==
    IF Len(fields) = 0 THEN Ok(List(<<Dict(<<>>), List(<<>>)>>), "", Nothing)
    ELSE IF startswith(Head(fields).name, "_") THEN dataclass_fields(P, Tail(fields))
    ELSE Then2(parse_annotation(P, Head(fields).type, Ellipsis),
               dataclass_fields(P, Tail(fields)),
               LAMBDA h, r :
                   List(<<Dict(<<KV(Head(fields).name,
                                    IF Head(fields).default = MISSING THEN h
                                    ELSE setattr(h, "default", Head(fields).default))>>
                               \o r.l[1].kv),
                          List((IF Head(fields).default = MISSING
                                THEN <<Str(Head(fields).name)>> ELSE <<>>) \o r.l[2].l)>>))

\* a mapping rule that accepts every key type
key_rejected_never(P, key) == FALSE

\* DictParser.parse_annotation, line 362: the key type is refused
key_rejected(P, key) == P.strict /\ key \notin {AnyStr, Class("str"), Class("bytes")}

\* parser.parse_annotation(annotation) of rule r: the node the rule builds
build(P, r, a) ==
    CASE r = "TypeVarParser" ->
            IF a.bound # None
            THEN Then(parse_annotation(P, a.bound, Ellipsis),
                      LAMBDA arg : setattr(arg, "title", Str(a.n)))
            ELSE Ok(setattr(New("JSONSchemaObject", <<>>), "title", Str(a.n)), "", Nothing)
      [] r = "NewTypeParser" ->
            Then(parse_annotation(P, a.supertype, Ellipsis),
                 LAMBDA arg : setattr(arg, "title", Str(a.n)))
      [] r = "ConstantParser" -> Ok(New("Enum", <<KV("enum", List(a.args))>>), "", Nothing)
      [] r = "UnionParser" ->
            Then(parse_args(P, get_args(a)), LAMBDA items : New("AnyOf", <<KV("items", items)>>))
      [] r = "ListParser" -> list_parse(P, a)
      [] r = "SetParser" ->
            Then(list_parse(P, a), LAMBDA arr : setattr(arr, "uniqueItems", PyBool(TRUE)))
      [] r = "TupleParser" ->
            IF Len(get_args(a)) = 0 \/ (Len(get_args(a)) > 1 /\ get_args(a)[2] = Ellipsis)
            THEN list_parse(P, a)
            ELSE Then(parse_args(P, get_args(a)),
                      LAMBDA items : New("Array", <<KV("prefixItems", items)>>))
      [] r = "DictParser" ->
            IF Len(get_args(a)) > 1
            THEN IF key_rejected(P, get_args(a)[1])
                 THEN Raise("IncompatibleTypesError", "dict key")
                 ELSE IF get_args(a)[2] \notin {typing_Any, Ellipsis}
                 THEN Then(parse_annotation(P, get_args(a)[2], Ellipsis),
                           LAMBDA v : New("Object", <<KV("patternProperties",
                                                         Dict(<<KV("^.+$", v)>>))>>))
                 ELSE Ok(New("Object", <<KV("patternProperties", None)>>), "", Nothing)
            ELSE Ok(New("Object", <<KV("patternProperties", None)>>), "", Nothing)
      [] r = "TypedDictParser" ->
            Then(typeddict_fields(P, a, 1),
                 LAMBDA f : New("Object", <<KV("properties", f.l[1]), KV("required", f.l[2]),
                                            KV("description", a.doc),
                                            KV("additionalProperties", PyBool(FALSE)),
                                            KV("title", Str(a.n))>>))
      [] r = "NamedTupleParser" ->
            Then(namedtuple_fields(P, a, 1),
                 LAMBDA items : New("Array", <<KV("prefixItems", items),
                                               KV("description", a.doc),
                                               KV("title", Str(a.n))>>))
      [] r = "EnumValueParser" ->
            Ok(New("Const", <<KV("const", a.value), KV("title", Str(a.cls \o "." \o a.name))>>),
               "", Nothing)
      [] r = "EnumTypeParser" ->
            Ok(New("Enum", <<KV("description", a.doc),
                             KV("enum", List([i \in 1..Len(a.members) |-> a.members[i].v])),
                             KV("title", Str(a.n))>>), "", Nothing)
      [] r = "DataclassParser" ->
            IF Kind(a) = "object" THEN Raise("AttributeError", "__name__")
            ELSE Then(dataclass_fields(P, a.fields),
                      LAMBDA f : New("Object",
                                     <<KV("properties", f.l[1]), KV("required", f.l[2]),
                                       KV("additionalProperties", PyBool(FALSE)),
                                       KV("title", Str(a.n)),
                                       KV("description", get_function_summary(a.doc))>>))
      [] OTHER -> Ok(New(RuleAnnotation(r), <<>>), "", Nothing)

\* Parser.parse_annotation, lines 164-167: the node of the selected rule with the
\* supplied default
attach_default(rule, a, r, dflt) ==
    IF ~r.ok THEN After([used |-> {rule}, seen |-> {a}], r)
    ELSE Ok(IF dflt # Ellipsis THEN setattr(r.node, "default", dflt) ELSE r.node,
            rule, Both([used |-> {rule}, seen |-> {a}], r))

\* Parser.parse_annotation, lines 160-174, for the descriptor a and the position i of
\* the selected rule, 0 when there is none
resolve(P, a, i, dflt) ==
    IF i > 0 THEN attach_default(P.types[i], a, build(P, P.types[i], a), dflt)
    ELSE IF P.strict
    THEN After([used |-> {}, seen |-> {a}], Raise("IncompatibleTypesError", "no rule"))
    ELSE Ok(New("JSONSchemaObject",
                <<KV("title", IF a = empty THEN None ELSE Str(PyStr(a))),
                  KV("default", dflt)>>),
            "fallback", [used |-> {"fallback"}, seen |-> {a}])

\* the descriptor a forward reference stands for, lines 155-159
dereference(P, ann) == IF Kind(ann) = "ForwardRef" THEN locals_get(P, ann.arg) ELSE ann

\* the parser within one more call of parse_annotation
called(P) == [P EXCEPT !.frames = @ - 1]

\* Parser.parse_annotation; the code bounds the depth of its recursion nowhere, and the
\* interpreter raises RecursionError when its call stack is full
parse_annotation(P, ann, dflt) ==
    IF P.frames = 0 THEN Raise("RecursionError", "maximum recursion depth exceeded")
    ELSE resolve(called(P), dereference(P, ann), select_parser(P, dereference(P, ann), 1), dflt)

-----------------------------------------------------------------------------
(* Parser.parse_function and generic owner classes.                        *)

\* a class with generic bases: __orig_bases__ is what the class statement listed
GenericClass(n, orig_bases) == [k |-> "class", n |-> n, orig_bases |-> orig_bases]

\* Base[args], a typing._GenericAlias whose __origin__ is the class Base
GenericAlias(origin, args) ==
    [k |-> "alias", n |-> origin.n, origin |-> origin, hasargs |-> TRUE, args |-> args]

\* inspect.Parameter
Parameter(name, kind, ann, dflt) ==
    [name |-> name, kind |-> kind, annotation |-> ann, default |-> dflt]

\* a callable as inspect.signature sees it; ftype is type(f)
Callable(ftype, params, return_annotation) ==
    [ftype |-> ftype, params |-> params, return_annotation |-> return_annotation]

\* utils.is_generic
is_generic(d) == Kind(d) = "alias"

\* utils.get_generic_alias: the first generic alias of __orig_bases__, or None
get_generic_alias(obj) ==
    LET bases == IF "orig_bases" \in DOMAIN obj THEN obj.orig_bases ELSE <<>>
        found == {i \in 1..Len(bases) : is_generic(bases[i])}
    IN  IF found = {} THEN None
        ELSE bases[CHOOSE i \in found : \A j \in found : i <= j]

\* the loop of _parse_generic_class: the __args__ of the last alias of the chain
RECURSIVE base_args_of(_)
base_args_of(base_alias) ==
    LET next == get_generic_alias(base_alias.origin)
    IN  IF next # None THEN base_args_of(next) ELSE base_alias.args

\* _parse_generic_class: the descriptor a type variable of a method of c stands for
parse_generic_class(c, ann) ==
    LET alias == get_generic_alias(c)
    IN  IF alias = None THEN Raise("AttributeError", "__args__")
        ELSE LET args == alias.args
                 base_args == base_args_of(alias)
                 found == {i \in 1..Len(base_args) : base_args[i] = ann}
                 index == CHOOSE i \in found : \A j \in found : i <= j
             IN  IF found = {} THEN Ok(ann, "", Nothing)
                 ELSE IF index > Len(args) THEN Ok(ann, "", Nothing)
                 ELSE Ok(args[index], "", Nothing)

\* a loop that models positional-only parameters like any other parameter
classify_positional_allowed(P, f, c, i) ==
    LET arg == f.params[i]
    IN  IF P.private_arg_prefix # "" /\ startswith(arg.name, P.private_arg_prefix) THEN "skip"
        ELSE IF c # None /\ i = 1 /\ f.ftype # "staticmethod" THEN "skip"
        ELSE IF arg.kind = "VAR_POSITIONAL" THEN "skip"
        ELSE IF arg.kind = "VAR_KEYWORD" THEN "additional"
        ELSE "model"

\* what the loop of Parser.parse_function does with the i-th parameter (lines 109-124),
\* the checks being made in the order of the code
classify(P, f, c, i) ==
    LET arg == f.params[i]
        is_staticmethod == f.ftype = "staticmethod"
    IN  IF P.private_arg_prefix # "" /\ startswith(arg.name, P.private_arg_prefix) THEN "skip"
        ELSE IF c # None /\ i = 1 /\ ~is_staticmethod THEN "skip"
        ELSE IF arg.kind = "VAR_POSITIONAL" THEN "skip"
        ELSE IF arg.kind = "VAR_KEYWORD" THEN "additional"
        ELSE IF arg.kind = "POSITIONAL_ONLY" THEN "raise"
        ELSE "model"

\* a loop that forgets the declared defaults
declared_default_dropped(arg) == Ellipsis

\* lines 134-138: the default handed to parse_annotation, Ellipsis when none is declared
declared_default(arg) == IF arg.default = empty THEN Ellipsis ELSE arg.default

\* lines 126-132: the annotation handed to parse_annotation
resolve_typevar(P, c, arg) ==
    IF Kind(arg.annotation) = "TypeVar"
    THEN IF c # None THEN parse_generic_class(c, arg.annotation)
         ELSE build(P, "TypeVarParser", arg.annotation)
    ELSE Ok(arg.annotation, "", Nothing)

\* lines 134-140 for a modeled parameter whose annotation is resolved to ann: the
\* triple of the rest of the loop with the property of the parameter added
model_param(P, arg, ann, rest) ==
    IF ~ann.ok THEN ann
    ELSE Then2(After(ann, parse_annotation(P, ann.node, declared_default(arg))), rest,
               LAMBDA h, r :
                   List(<<Dict(<<KV(arg.name, h)>> \o r.l[1].kv),
                          List((IF arg.default = empty THEN <<Str(arg.name)>> ELSE <<>>)
                               \o r.l[2].l),
                          r.l[3]>>))

\* one turn of the loop: what is the classification of the parameter, rest the outcome
\* of the turns that follow
loop_turn(P, c, arg, what, rest) ==
    IF what = "skip" THEN rest
    ELSE IF what = "additional"
    THEN Then(rest, LAMBDA r : List(<<r.l[1], r.l[2], PyBool(TRUE)>>))
    ELSE IF what = "raise" THEN Raise("IncompatibleTypesError", "positional only")
    ELSE model_param(P, arg, resolve_typevar(P, c, arg), rest)

\* the loop of Parser.parse_function over the parameters from index i on; returns
\* (params, required, additional_properties) as a three-element list
RECURSIVE function_params(_, _, _, _)
function_params(P, f, c, i) ==
    IF i > Len(f.params) THEN Ok(List(<<Dict(<<>>), List(<<>>), PyBool(FALSE)>>), "", Nothing)
    ELSE loop_turn(P, c, f.params[i], classify(P, f, c, i), function_params(P, f, c, i + 1))

\* lines 142-151: the Object node of the parameters, None when there is none, and the
\* FunctionAnnotation named tuple
function_annotation(p, returns) ==
    Obj("FunctionAnnotation",
        <<KV("kwargs", IF Len(p.l[1].kv) > 0
                       THEN New("Object", <<KV("properties", p.l[1]), KV("required", p.l[2]),
                                            KV("additionalProperties", p.l[3])>>)
                       ELSE None),
          KV("returns", returns)>>)

\* Parser.parse_function
parse_function(P, f, c) ==
    Then2(function_params(P, f, c, 1),
          IF f.return_annotation = empty THEN Ok(None, "", Nothing)
          ELSE parse_annotation(P, f.return_annotation, Ellipsis),
          function_annotation)

\* a class with the attributes of its body: vars(cls) in definition order
ClassBody(n, members) == [k |-> "class", n |-> n, vars |-> members]

\* inspect.isfunction: true of a plain function; false of the classmethod and
\* staticmethod objects a class body holds, and of every other attribute value
isfunction(value) == "ftype" \in DOMAIN value /\ value.ftype = "function"

\* the loop of Parser.parse_class over vars(cls).items() from index i on
RECURSIVE parse_class_from(_, _, _)
parse_class_from(P, c, i) ==
    IF i > Len(c.vars) THEN Ok(Dict(<<>>), "", Nothing)
    ELSE IF P.private_arg_prefix # "" /\ startswith(c.vars[i].k, P.private_arg_prefix)
    THEN parse_class_from(P, c, i + 1)
    ELSE IF ~isfunction(c.vars[i].v) THEN parse_class_from(P, c, i + 1)
    ELSE Then2(parse_function(P, c.vars[i].v, c), parse_class_from(P, c, i + 1),
               LAMBDA h, r : Dict(<<KV(c.vars[i].k, h)>> \o r.kv))

\* Parser.parse_class
parse_class(P, c) == parse_class_from(P, c, 1)

\* Parser.__init__
Parser(strict, private_arg_prefix, types, locals) ==
    [strict |-> strict, private_arg_prefix |-> private_arg_prefix,
     types |-> IF Len(types) > 0 THEN types ELSE TYPES, locals |-> locals]

\* a parser together with the version of the interpreter that runs it
Running(p, py) ==
    [strict |-> p.strict, private_arg_prefix |-> p.private_arg_prefix,
     types |-> p.types, locals |-> p.locals, py |-> py, frames |-> RecursionLimit]

-----------------------------------------------------------------------------
(* The inputs of the model.                                                *)

str == Class("str")

int == Class("int")

date == Class("datetime.date")

Hashable == Bare("typing.Hashable", "collections.abc.Hashable")

_Schema ==
    TypedDict("_Schema", TRUE, <<KV("id", str), KV("value", int)>>, {"id", "value"}, Str("Schema"))

_Enum ==
    EnumType("_Enum", <<KV("value_1", Str("text")), KV("value_2", PyInt(1))>>, Str("Enum value"))

_NamedTuple ==
    NamedTuple("_NamedTuple", <<"id", "data", "name">>,
               <<KV("id", int), KV("data", Class("dict")), KV("name", str)>>,
               <<KV("name", Str("test"))>>, Str("_NamedTuple(id, data, name)"))

_DataClass ==
    Dataclass("_DataClass",
              <<Field("id", int, MISSING), Field("data", Class("dict"), MISSING),
                Field("flag", Class("bool"), PyBool(TRUE))>>, Str("Data class"))

_TypeVar == TypeVar("_TypeVar", None)

_TypeVarStr == TypeVar("_TypeVarStr", str)

\* typing.Tuple[()]: its __args__ is () on Python 3.11 and later
EmptyTuple == Alias("typing.Tuple", "tuple", <<>>)

\* N = NewType('N', Union[str, int])
_NewTypeUnion == NewType("_NewTypeUnion", Union(<<str, int>>))

_SchemaNotRequired ==
    TypedDict("_SchemaNotRequired", TRUE, <<KV("id", str), KV("value", NotRequired(int))>>,
              {"id"}, Str("Schema not required"))

_SchemaRequired ==
    TypedDict("_SchemaRequired", FALSE, <<KV("id", Required(str)), KV("value", int)>>,
              {"id"}, Str("Schema required"))

\* class Node(TypedDict): value: int; next: 'Node'
Node ==
    TypedDict("Node", TRUE, <<KV("value", int), KV("next", ForwardRef("Node"))>>,
              {"value", "next"}, None)

\* class Branch(TypedDict): children: List[Optional['Branch']]
Branch ==
    TypedDict("Branch", TRUE,
              <<KV("children", Alias("typing.List", "list",
                                     <<Union(<<ForwardRef("Branch"), None>>)>>))>>,
              {"children"}, None)

\* class Tagged(TypedDict): _id: int; name: str
Tagged ==
    TypedDict("Tagged", TRUE, <<KV("_id", int), KV("name", str)>>, {"_id", "name"}, None)

\* class Movie(TypedDict): title: str; year: NotRequired[int]; tag: Required[None]
Movie ==
    TypedDict("Movie", TRUE,
              <<KV("title", str), KV("year", NotRequired(int)), KV("tag", Required(None))>>,
              {"title", "tag"}, None)

\* class Partial(TypedDict, total=False): id: Required[int]; note: str; year: NotRequired[int]
Partial ==
    TypedDict("Partial", FALSE,
              <<KV("id", Required(int)), KV("note", str), KV("year", NotRequired(int))>>,
              {"id"}, None)

\* class Loose(TypedDict, total=False): a: int; b: str
Loose == TypedDict("Loose", FALSE, <<KV("a", int), KV("b", str)>>, {}, None)

\* class Child(_Schema, total=False): note: str
Child ==
    TypedDict("Child", FALSE, <<KV("id", str), KV("value", int), KV("note", str)>>,
              {"id", "value"}, None)

\* class Grown(Loose): c: int
Grown ==
    TypedDict("Grown", TRUE, <<KV("a", int), KV("b", str), KV("c", int)>>, {"c"}, None)

\* class EmptyDict(TypedDict): pass
EmptyDict == TypedDict("EmptyDict", TRUE, <<>>, {}, None)

\* @dataclass class Record: """Record"""; id: int; _hidden: str; arg_x: int = 1;
\*     name: str = None; items: list = field(default_factory=list); _cache: int = 0
Record ==
    Dataclass("Record",
              <<Field("id", int, MISSING), Field("_hidden", str, MISSING),
                Field("arg_x", int, PyInt(1)), Field("name", str, None),
                FactoryField("items", Class("list"), Class("list")),
                Field("_cache", int, PyInt(0))>>, Str("Record"))

\* the descriptors that exist on Python 3.10 or 3.11 and later only
ModernWrapAtoms == {EmptyTuple}

ModernAtoms ==
    {UnionType(<<str, int>>), UnionType(<<str, None>>), UnionType(<<date, int>>),
     _SchemaNotRequired, _SchemaRequired, Movie, Partial, Child}

\* descriptors that are nested inside the composite descriptors of depth 1
WrapAtoms(py) ==
    {str, int, date, None, typing_Any, Hashable, _TypeVar,
     ForwardRef("X"), ForwardRef("Missing"), EnumMember("_Enum", "value_1", Str("text")),
     Alias("typing.Dict", "dict", <<int, str>>)}
    \cup (IF py >= 311 THEN ModernWrapAtoms ELSE {})

Atoms(py) ==
    WrapAtoms(py) \cup (IF py >= 311 THEN ModernAtoms ELSE {}) \cup
    {_NewTypeUnion, Loose, Grown, EmptyDict, Tagged, Record, New("String", <<>>),
     Node, Branch, ForwardRef("Node"), Alias("typing.List", "list", <<ForwardRef("Node")>>),
     NewType("Tree", ForwardRef("Branch")),
     Alias("typing.List", "list", <<Union(<<int, str>>)>>),
     Alias("typing.Set", "set", <<Union(<<int, str>>)>>),
     Alias("typing.List", "list", <<_NewTypeUnion>>),
     Alias("typing.List", "list", <<Union(<<_NewTypeUnion, Class("bytes")>>)>>),
     Class("frozenset"), Bare("typing.Tuple", "tuple"),
     Alias("typing.Tuple", "tuple", <<Union(<<int, str>>), Ellipsis>>),
     Alias("typing.Tuple", "tuple", <<Union(<<int, str>>), date>>),
     Alias("typing.Dict", "dict", <<Class("bytes"), int>>),
     Alias("typing.Dict", "dict", <<AnyStr, date>>),
     Alias("typing.Dict", "dict", <<int, date>>),
     Alias("typing.Dict", "dict", <<int, typing_Any>>),
     Alias("typing.Mapping", "collections.abc.Mapping", <<str, int>>),
     Union(<<None, str, int>>), Union(<<int, Union(<<str, None>>), int>>)} \cup
    {Class("bytes"), AnyStr, Class("uuid.UUID"), SafeUUID, Class("datetime.datetime"),
     Class("float"), Class("decimal.Decimal"), Class("bool"), Class("NoneType"), empty,
     _TypeVarStr, TypeVar("_TypeVarDate", date), NewType("_NewTypeStr", str),
     Literal(<<Str("test")>>), Literal(<<None, PyInt(1)>>), _Enum, _Schema, _NamedTuple,
     _DataClass, Class("list"), Bare("typing.List", "list"), Class("tuple"), Class("dict"),
     Class("set"), Alias("typing.Tuple", "tuple", <<str, Ellipsis>>),
     Alias("typing.Tuple", "tuple", <<str, int>>),
     Alias("typing.Dict", "dict", <<str, typing_Any>>),
     Alias("typing.Dict", "dict", <<str, Ellipsis>>),
     ForwardRef("D"), ForwardRef("S"), ForwardRef("E")}

\* the composite descriptors with a as their nested descriptor
Wrap(a) ==
    {Alias("typing.List", "list", <<a>>),
     Alias("typing.Set", "set", <<a>>),
     Alias("typing.Tuple", "tuple", <<a>>),
     Alias("typing.Dict", "dict", <<str, a>>),
     Union(<<str, a>>),
     Union(<<date, a>>),
     Union(<<a, date>>),
     TypedDict("Record", TRUE, <<KV("id", str), KV("value", a)>>, {"id", "value"}, None),
     NamedTuple("Point", <<"x">>, <<KV("x", a)>>, <<>>, None),
     Dataclass("Data", <<Field("x", a, MISSING)>>, None),
     TypeVar("_T", a),
     NewType("Alias", a)}

DeepWrap(a) ==
    {Alias("typing.List", "list", <<a>>),
     Alias("typing.Dict", "dict", <<str, a>>),
     Union(<<str, a>>),
     TypedDict("Outer", FALSE, <<KV("inner", a)>>, {}, None)}

\* the composite descriptors of nesting depth exactly n
RECURSIVE Composite(_, _)
Composite(n, py) ==
    IF n = 1 THEN UNION {Wrap(a) : a \in WrapAtoms(py)}
    ELSE UNION {DeepWrap(a) : a \in Composite(n - 1, py)}

\* the descriptors that exist on the Python version py
Descriptors(py) == Atoms(py) \cup UNION {Composite(n, py) : n \in 1..MaxDepth}

\* the default values a caller supplies; Ellipsis stands for "no default"
Defaults == {Ellipsis, None, Str("x")}

\* a registry in another order than TYPES
Reversed(seq) == [i \in 1..Len(seq) |-> seq[Len(seq) + 1 - i]]

\* the name table of the parsers that are given one
Locals == <<KV("X", int), KV("D", date), KV("S", _Schema), KV("E", EmptyTuple)>>

\* a name table through which the records Node and Branch refer back to themselves
SelfReferences == <<KV("Node", Node), KV("Branch", Branch)>>

Parsers ==
    {Parser(s, "_", <<>>, <<>>) : s \in BOOLEAN}
    \cup {Parser(s, "_", <<>>, SelfReferences) : s \in BOOLEAN}
    \cup {Parser(s, "_", <<>>, Locals) : s \in BOOLEAN}
    \cup {Parser(s, "", Reversed(TYPES), <<>>) : s \in BOOLEAN}
    \cup {Parser(s, "arg", <<>>, <<>>) : s \in BOOLEAN}

Pythons == {38, 311}

\* the type variables and owner classes of the methods
T == TypeVar("T", None)

U == TypeVar("U", None)

Generic == Class("typing.Generic")

\* class Plain: ...
Plain == Class("Plain")

\* class A(Generic[T, U]): ...
A == GenericClass("A", <<GenericAlias(Generic, <<T, U>>)>>)

\* class B(A[int, U]): ...
B == GenericClass("B", <<GenericAlias(A, <<int, U>>)>>)

\* class C(B[str]): ...
C == GenericClass("C", <<GenericAlias(B, <<str>>)>>)

\* class D(A[int, str]): ...
D == GenericClass("D", <<GenericAlias(A, <<int, str>>)>>)

\* class G(Generic[T]): ...
G == GenericClass("G", <<GenericAlias(Generic, <<T>>)>>)

\* class H(G[_Schema]): ...
H == GenericClass("H", <<GenericAlias(G, <<_Schema>>)>>)

Owners == {None, Plain, A, B, C, D, G, H}

ParameterPool ==
    {Parameter("self", "POSITIONAL_OR_KEYWORD", empty, empty),
     Parameter("self", "POSITIONAL_ONLY", empty, empty),
     Parameter("arg1", "POSITIONAL_ONLY", int, empty),
     Parameter("_arg", "POSITIONAL_ONLY", int, empty),
     Parameter("value", "POSITIONAL_OR_KEYWORD", int, empty),
     Parameter("value", "POSITIONAL_OR_KEYWORD", int, PyInt(42)),
     Parameter("name", "POSITIONAL_OR_KEYWORD", str, None),
     Parameter("_private", "POSITIONAL_OR_KEYWORD", str, None),
     Parameter("_token", "POSITIONAL_OR_KEYWORD", str, empty),
     Parameter("when", "POSITIONAL_OR_KEYWORD", date, empty),
     Parameter("item", "POSITIONAL_OR_KEYWORD", T, empty),
     Parameter("other", "POSITIONAL_OR_KEYWORD", U, empty),
     Parameter("text", "POSITIONAL_OR_KEYWORD", _TypeVarStr, empty),
     Parameter("args", "VAR_POSITIONAL", empty, empty),
     Parameter("flag", "KEYWORD_ONLY", Class("bool"), PyBool(TRUE)),
     Parameter("kws", "VAR_KEYWORD", empty, empty),
     Parameter("_kws", "VAR_KEYWORD", empty, empty)}

KindRank(kind) ==
    CASE kind = "POSITIONAL_ONLY" -> 0
      [] kind = "POSITIONAL_OR_KEYWORD" -> 1
      [] kind = "VAR_POSITIONAL" -> 2
      [] kind = "KEYWORD_ONLY" -> 3
      [] OTHER -> 4

\* the parameter lists Python accepts in a def statement
ValidSignature(ps) ==
    /\ \A i, j \in 1..Len(ps) : i < j =>
          /\ ps[i].name # ps[j].name
          /\ KindRank(ps[i].kind) <= KindRank(ps[j].kind)
          /\ ps[i].kind \in {"VAR_POSITIONAL", "VAR_KEYWORD"} => ps[i].kind # ps[j].kind
          /\ (KindRank(ps[j].kind) <= 1 /\ ps[j].default = empty) => ps[i].default = empty

Signatures ==
    {ps \in UNION {[1..n -> ParameterPool] : n \in 0..MaxParams} : ValidSignature(ps)}

Callables ==
    {Callable(ft, ps, ret) : ft \in {"function", "staticmethod"}, ps \in Signatures,
                             ret \in {empty, int}}

\* the attributes of class bodies: the three methods of _TestClass and its value
\* attribute, a private method, a static method with two modeled parameters, a method
\* without parameters other than self and a method with a positional-only parameter
MemberPool ==
    {KV("f", Callable("function",
                      <<Parameter("self", "POSITIONAL_OR_KEYWORD", empty, empty),
                        Parameter("name", "POSITIONAL_OR_KEYWORD", str, empty),
                        Parameter("_private", "POSITIONAL_OR_KEYWORD", str, None)>>, empty)),
     KV("f_cls", Callable("classmethod",
                          <<Parameter("cls", "POSITIONAL_OR_KEYWORD", empty, empty),
                            Parameter("name", "POSITIONAL_OR_KEYWORD", str, empty),
                            Parameter("_private", "POSITIONAL_OR_KEYWORD", str, None)>>, empty)),
     KV("f_static", Callable("staticmethod",
                             <<Parameter("name", "POSITIONAL_OR_KEYWORD", str, empty),
                               Parameter("_private", "POSITIONAL_OR_KEYWORD", str, None)>>,
                             empty)),
     KV("value", Dict(<<KV("type", Str("object"))>>)),
     KV("_hidden", Callable("function",
                            <<Parameter("self", "POSITIONAL_OR_KEYWORD", empty, empty),
                              Parameter("value", "POSITIONAL_OR_KEYWORD", int, empty)>>, empty)),
     KV("arg_static", Callable("staticmethod",
                               <<Parameter("value", "POSITIONAL_OR_KEYWORD", int, empty),
                                 Parameter("name", "POSITIONAL_OR_KEYWORD", str, None)>>, int)),
     KV("reset", Callable("function",
                          <<Parameter("self", "POSITIONAL_OR_KEYWORD", empty, empty)>>, empty)),
     KV("at", Callable("function",
                       <<Parameter("self", "POSITIONAL_ONLY", empty, empty),
                         Parameter("arg1", "POSITIONAL_ONLY", int, empty)>>, int))}

\* the classes whose bodies hold up to MaxMembers attributes of distinct names
Classes ==
    {ClassBody("_TestClass", ms) :
        ms \in {m \in UNION {[1..n -> MemberPool] : n \in 0..MaxMembers} :
                  \A i, j \in 1..Len(m) : i < j => m[i].k # m[j].k}}

\* a constructor call cls(**kwargs)
Call(c, kwargs) == [cls |-> c, kwargs |-> kwargs]

\* the format arguments the string alias classes are constructed with
Formats == {Str("date"), Str("date-time"), Str("uuid"), Str("email"), Str("x"), None}

StringAliases == {"Date", "DateTime", "GUID", "Email"}

Constructions ==
    {Call(c, <<KV("title", t), KV("default", d)>>) :
        c \in {"JSONSchemaObject", "String", "Integer", "Boolean", "Array", "Object", "Date"},
        t \in {None, Str("t")}, d \in Defaults}
    \cup {Call("Const", <<KV("const", v), KV("title", t)>>) :
            v \in {None, Str("1"), PyInt(1)}, t \in {None, Str("t")}}
    \cup {Call("Enum", <<KV("enum", List(e)), KV("default", d)>>) :
            e \in {<<None>>, <<PyInt(1), None>>, <<PyInt(1), PyInt(2)>>}, d \in Defaults}
    \cup {Call("Null", <<KV("default", d)>>) : d \in Defaults}
    \cup {Call("AnyOf", <<KV("items", List(<<New("String", <<>>), n>>))>>) :
            n \in {New("Null", <<>>), New("Const", <<KV("const", None)>>),
                   New("Integer", <<KV("default", None)>>)}}
    \cup {Call(c, <<>>) : c \in StringAliases}
    \cup {Call(c, <<KV("format", f)>>) : c \in StringAliases \cup {"String"}, f \in Formats}
    \cup {Call(c, <<KV("title", Str("t")), KV("format", f)>>) :
            c \in StringAliases, f \in Formats}

-----------------------------------------------------------------------------
(* The state machine: a parser is constructed, one operation is applied to *)
(* an input, and the canonical form of the result is taken.                *)

NoResult == Raise("", "")

Init ==
    /\ python \in Pythons
    /\ parser \in Parsers
    /\ python = 311 \/ (parser.locals = <<>> /\ parser.private_arg_prefix = "_")
    /\ op = "init"
    /\ annotation = None
    /\ default = Ellipsis
    /\ func = None
    /\ cls = None
    /\ result = NoResult
    /\ repr = None

\* parser.parse_annotation(d, default=v)
ParseAnnotation ==
    /\ op = "init"
    /\ \E d \in Descriptors(python), v \in Defaults :
          /\ annotation' = d
          /\ default' = v
          /\ result' = parse_annotation(Running(parser, python), d, v)
    /\ op' = "parse_annotation"
    /\ UNCHANGED <<python, parser, func, cls, repr>>

\* parser.parse_function(f, c)
ParseFunction ==
    /\ op = "init"
    /\ \E f \in Callables, c \in Owners :
          /\ f.ftype = "staticmethod" => c # None
          /\ func' = f
          /\ cls' = c
          /\ result' = parse_function(Running(parser, python), f, c)
    /\ op' = "parse_function"
    /\ UNCHANGED <<python, parser, annotation, default, repr>>

\* parser.parse_class(c)
ParseClass ==
    /\ op = "init"
    /\ \E c \in Classes :
          /\ cls' = c
          /\ result' = parse_class(Running(parser, python), c)
    /\ op' = "parse_class"
    /\ UNCHANGED <<python, parser, annotation, default, func, repr>>

\* a node built by its constructor
Construct ==
    /\ op = "init"
    /\ \E call \in Constructions : result' = construct(call.cls, call.kwargs)
    /\ op' = "construct"
    /\ UNCHANGED <<python, parser, annotation, default, func, cls, repr>>

\* the node whose canonical form is taken: the result, or the kwargs of a FunctionAnnotation
Subject == IF op = "parse_function" THEN getattr(result.node, "kwargs") ELSE result.node

\* node.json_repr()
JsonRepr ==
    /\ op \in {"parse_annotation", "parse_function", "construct"}
    /\ result.ok
    /\ repr = None
    /\ Subject # None
    /\ repr' = json_repr(Subject)
    /\ UNCHANGED <<python, parser, op, annotation, default, func, cls, result>>

NextAnnotation == ParseAnnotation \/ JsonRepr

NextFunction == ParseFunction \/ JsonRepr

NextSchema == Construct \/ JsonRepr

NextClass == ParseClass

Next == ParseAnnotation \/ ParseFunction \/ ParseClass \/ Construct \/ JsonRepr

SpecAnnotation == Init /\ [][NextAnnotation]_vars

SpecFunction == Init /\ [][NextFunction]_vars

SpecClass == Init /\ [][NextClass]_vars

SpecSchema == Init /\ [][NextSchema]_vars

Spec == Init /\ [][Next]_vars

(***************************************************************************)
(* Properties of Parser.parse_annotation                                   *)
(***************************************************************************)

\* the parser of the current state as the builders see it
Env == Running(parser, python)

\* the descriptor a forward reference stands for (parsers.py 155-159)
Subst(a) == IF Kind(a) = "ForwardRef" THEN locals_get(Env, a.arg) ELSE a

\* the rule matches the descriptor and may be used in the current mode
Eligible(r, a) == can_parse(r, a) /\ (RuleStrict(r) \/ ~parser.strict)

\* the registry positions of the rules eligible for a
EligibleAt(a) == {i \in 1..Len(parser.types) : Eligible(parser.types[i], a)}

\* the rules eligible in strict mode, whatever the mode of the parser
StrictEligibleAt(a) ==
    {i \in 1..Len(parser.types) : can_parse(parser.types[i], a) /\ RuleStrict(parser.types[i])}

Min(S) == CHOOSE i \in S : \A j \in S : i <= j

Position(r) == CHOOSE i \in 1..Len(TYPES) : TYPES[i] = r

WithDefault(node, v) == IF v # Ellipsis THEN setattr(node, "default", v) ELSE node

\* the descriptors directly nested in d that the builder of d resolves: container type
\* arguments, union members, the mapping value type, record fields, the bound of a type
\* variable, the supertype of an alias
Children(d) ==
    LET k == Kind(d)
    IN  IF is_union(d) THEN {Subst(x) : x \in {d.args[i] : i \in 1..Len(d.args)}}
        ELSE IF k = "alias" /\ get_origin(d) \in {Class("list"), Class("set"),
                                                  Class("frozenset"), Class("tuple")}
        THEN {Subst(x) : x \in {d.args[i] : i \in 1..Len(d.args)} \ {Ellipsis}}
        ELSE IF k = "alias" /\ get_origin(d) = Class("dict")
        THEN IF Len(d.args) > 1 /\ d.args[2] \notin {Ellipsis, typing_Any}
             THEN {Subst(d.args[2])} ELSE {}
        ELSE IF k = "TypedDict"
        THEN {Subst(IF get_origin(d.fields[i].v) \in {Class("typing.Required"),
                                                    Class("typing.NotRequired")}
                    THEN d.fields[i].v.args[1] ELSE d.fields[i].v) : i \in 1..Len(d.fields)}
        ELSE IF k = "TypeVar" THEN (IF d.bound # None THEN {Subst(d.bound)} ELSE {})
        ELSE IF k = "NewType" THEN {Subst(d.supertype)}
        ELSE {}

RECURSIVE Nested(_)
Nested(d) == Children(d) \cup UNION {Nested(x) : x \in Children(d)}

\* C1: parse_annotation returns the node built by the first rule, in registry order, that
\* matches the descriptor and is eligible in the current mode (with the supplied default
\* attached), and fails as that rule's builder fails; in the default registry the rule for
\* an enumeration instance precedes the rule for an enumeration type and the union rule
\* precedes the list, set, tuple and mapping rules.
C1_FirstEligibleRuleWins ==
    /\ Position("EnumValueParser") < Position("EnumTypeParser")
    /\ \A r \in {"ListParser", "SetParser", "TupleParser", "DictParser"} :
          Position("UnionParser") < Position(r)
    /\ (op = "parse_annotation" /\ EligibleAt(Subst(annotation)) # {}) =>
          LET first == parser.types[Min(EligibleAt(Subst(annotation)))]
              built == build(Env, first, Subst(annotation))
          IN  IF result.ok
              THEN /\ result.rule = first
                   /\ built.ok
                   /\ result.node = WithDefault(built.node, default)
              ELSE ~built.ok /\ result.err = built.err

\* a descriptor that several eligible rules match has resolved
C1_Witness ==
    /\ op = "parse_annotation"
    /\ result.ok
    /\ Cardinality(EligibleAt(Subst(annotation))) > 1
    /\ result.rule = parser.types[Min(EligibleAt(Subst(annotation)))]

InMode(strict) == parse_annotation([Env EXCEPT !.strict = strict], annotation, default)

NoRule(r) == ~r.ok /\ r.err = "IncompatibleTypesError" /\ r.why = "no rule"

\* C3: in lenient mode parse_annotation never raises because no rule matches; a descriptor
\* that no rule matches resolves to a node that carries only title = str(d) and the
\* supplied default; every descriptor that strict mode rejects only for lack of a
\* strict-eligible rule resolves in lenient mode.
C3_LenientAlwaysResolves ==
    (op = "parse_annotation" /\ ~parser.strict) =>
        /\ ~NoRule(result)
        /\ (\A i \in 1..Len(parser.types) : ~can_parse(parser.types[i], Subst(annotation))) =>
              /\ result.ok
              /\ result.node = New("JSONSchemaObject",
                                   <<KV("title", Str(PyStr(Subst(annotation)))),
                                     KV("default", default)>>)
        /\ NoRule(InMode(TRUE)) => result.ok

\* C4: for every descriptor that a rule matches and every node variant, a supplied
\* default v is attached to the returned node, in place of the builder's own default, and
\* the canonical form of the node carries "default" equal to v; when no default is
\* supplied the builder's default is left as it is.
C4_DefaultAttached ==
    (op = "parse_annotation" /\ result.ok /\ result.rule # "fallback") =>
        IF default # Ellipsis
        THEN /\ hasattr(result.node, "default")
             /\ getattr(result.node, "default") = default
             /\ repr # None =>
                   /\ HasKey(repr.kv, "default")
                   /\ Get(repr.kv, "default") = serialize_schema_value(default)
        ELSE result.node = build(Env, result.rule, Subst(annotation)).node

\* C5: the canonical form of a node leaves out every field that is unset, emits a
\* default that is explicitly None as "default": null and leaves out a default that was
\* never supplied; the form of Const(None) keeps the key "const" and the enum list of
\* Null() and of every Enum is emitted with its None entries.
C5_NoneIsAValue ==
    (repr # None /\ Combinator(Subject.cls) = "") =>
        \A i \in 1..Len(Subject.vars) :
            LET e == Subject.vars[i]
            IN  IF startswith(e.k, "_") THEN TRUE
                ELSE IF e.k = "default"
                THEN /\ e.v = Ellipsis => ~HasKey(repr.kv, "default")
                     /\ e.v = None =>
                           HasKey(repr.kv, "default") /\ Get(repr.kv, "default") = None
                ELSE IF e.k = "const"
                THEN HasKey(repr.kv, "const")
                        /\ Get(repr.kv, "const") = serialize_schema_value(e.v)
                ELSE IF e.k = "enum"
                THEN HasKey(repr.kv, "enum")
                        /\ Get(repr.kv, "enum") = serialize_schema_value(e.v)
                ELSE e.v = None => ~HasKey(repr.kv, e.k)

\* the record descriptor with its forward-referenced fields replaced by what they name
SubstFields(d) ==
    [d EXCEPT !.fields = [i \in 1..Len(d.fields) |-> KV(d.fields[i].k, Subst(d.fields[i].v))]]

\* C6: a forward reference to a name of the name table resolves exactly when the named
\* descriptor does and to the same node, at the top level and as the field of a record;
\* a forward reference to a name that is absent resolves, in both modes, to a node whose
\* canonical form is {} plus the supplied default.
C6_ForwardReferences ==
    /\ (op = "parse_annotation" /\ Kind(annotation) = "ForwardRef") =>
          IF HasKey(parser.locals, annotation.arg)
          THEN LET direct == parse_annotation(Env, Get(parser.locals, annotation.arg), default)
               IN  /\ result.ok = direct.ok
                   /\ result.node = direct.node
                   /\ repr # None => repr = json_repr(direct.node)
          ELSE /\ result.ok
               /\ repr # None =>
                     repr = Dict(IF default = Ellipsis THEN <<>>
                                 ELSE <<KV("default", serialize_schema_value(default))>>)
    /\ (op = "parse_annotation" /\ Kind(annotation) = "TypedDict") =>
          LET direct == parse_annotation(Env, SubstFields(annotation), default)
          IN  result.ok = direct.ok /\ result.node = direct.node

(***************************************************************************)
(* Properties of Parser.parse_function                                     *)
(***************************************************************************)

Params == func.params

Indices == [i \in 1..Len(Params) |-> i]

\* the name starts with the non-empty private prefix of the parser
Private(i) ==
    parser.private_arg_prefix # "" /\ startswith(Params[i].name, parser.private_arg_prefix)

\* the first parameter of a non-static callable bound to an owner type
Receiver(i) == cls # None /\ i = 1 /\ func.ftype # "staticmethod"

Variadic(i) == Params[i].kind \in {"VAR_POSITIONAL", "VAR_KEYWORD"}

Modeled(i) == ~Private(i) /\ ~Receiver(i) /\ ~Variadic(i)

NoDeclaredDefault(i) == Params[i].default = empty

ModeledSeq == SelectSeq(Indices, Modeled)

Names(seq) == [k \in 1..Len(seq) |-> Str(Params[seq[k]].name)]

\* the input schema of a returned FunctionAnnotation, the value of additionalProperties
\* being the one given
InputSchema(additional) ==
    (op = "parse_function" /\ result.ok) =>
        LET kwargs == getattr(result.node, "kwargs")
            returns == getattr(result.node, "returns")
        IN  /\ (kwargs = None) <=> (ModeledSeq = <<>>)
            /\ (returns = None) <=> (func.return_annotation = empty)
            /\ kwargs # None =>
                  LET properties == getattr(kwargs, "properties").kv
                  IN  /\ [k \in 1..Len(properties) |-> Str(properties[k].k)] = Names(ModeledSeq)
                      /\ getattr(kwargs, "required")
                            = List(Names(SelectSeq(ModeledSeq, NoDeclaredDefault)))
                      /\ \A k \in 1..Len(ModeledSeq) :
                            ~NoDeclaredDefault(ModeledSeq[k]) =>
                                getattr(properties[k].v, "default") = Params[ModeledSeq[k]].default
                      /\ getattr(kwargs, "additionalProperties") = PyBool(additional)

\* C7 as stated: the modeled parameters are those that are not private-prefixed, not the
\* receiver, not variadic; properties lists them in declaration order, required is the
\* sub-list of those without a declared default, the others carry their declared default;
\* kwargs is None iff no parameter is modeled, returns is None iff there is no return
\* annotation; additionalProperties is true iff f has a variadic-keyword parameter.
C7_Original ==
    InputSchema(\E i \in 1..Len(Params) : Params[i].kind = "VAR_KEYWORD")

\* C7 amended: as above, but additionalProperties is true iff f has a variadic-keyword
\* parameter that is neither private-prefixed nor the receiver.
C7_InputSchema ==
    InputSchema(\E i \in 1..Len(Params) :
                    Params[i].kind = "VAR_KEYWORD" /\ ~Private(i) /\ ~Receiver(i))

\* a schema was built for a callable whose only variadic-keyword parameter is skipped
\* and which has a modeled parameter with a declared default
C7_Witness ==
    /\ op = "parse_function"
    /\ result.ok
    /\ getattr(result.node, "kwargs") # None
    /\ \E i \in 1..Len(Params) : Params[i].kind = "VAR_KEYWORD" /\ (Private(i) \/ Receiver(i))
    /\ \E i \in 1..Len(Params) : Modeled(i) /\ ~NoDeclaredDefault(i)
    /\ getattr(getattr(result.node, "kwargs"), "additionalProperties") = PyBool(FALSE)

PositionalOnly(i) == Params[i].kind = "POSITIONAL_ONLY"

\* C8 as stated: parse_function raises IncompatibleTypesError for every callable that
\* declares a positional-only parameter, whatever its name and position.
C8_Original ==
    (op = "parse_function" /\ \E i \in 1..Len(Params) : PositionalOnly(i)) =>
        (~result.ok /\ result.err = "IncompatibleTypesError")

\* C8 amended: parse_function raises IncompatibleTypesError for every callable that
\* declares a positional-only parameter that is neither private-prefixed nor the receiver.
C8_PositionalOnlyRejected ==
    (op = "parse_function"
        /\ \E i \in 1..Len(Params) : PositionalOnly(i) /\ ~Private(i) /\ ~Receiver(i)) =>
        (~result.ok /\ result.err = "IncompatibleTypesError" /\ result.why = "positional only")

\* a callable was rejected for its second parameter, positional-only, the first one
\* being a positional-only parameter that is skipped
C8_Witness ==
    /\ op = "parse_function"
    /\ Len(Params) = 2
    /\ PositionalOnly(1) /\ (Private(1) \/ Receiver(1))
    /\ PositionalOnly(2) /\ ~Private(2)
    /\ result.err = "IncompatibleTypesError"

TypeVarParam(i) == Modeled(i) /\ Kind(Params[i].annotation) = "TypeVar"

\* everything of the call but the parameters annotated with a type variable resolves
OthersResolve ==
    /\ \A i \in 1..Len(Params) : ~(PositionalOnly(i) /\ ~Private(i) /\ ~Receiver(i))
    /\ \A i \in 1..Len(Params) :
          (Modeled(i) /\ ~TypeVarParam(i)) =>
              parse_annotation(Env, Params[i].annotation, declared_default(Params[i])).ok
    /\ func.return_annotation # empty =>
          parse_annotation(Env, func.return_annotation, Ellipsis).ok

\* the property of the i-th parameter in the returned input schema
Property(i) ==
    Get(getattr(getattr(result.node, "kwargs"), "properties").kv, Params[i].name)

\* parse_annotation(T) with the declared default of the parameter
Standalone(i) == parse_annotation(Env, Params[i].annotation, declared_default(Params[i]))

\* C9: without an owner type, a call with a parameter annotated with a type variable T
\* succeeds in both modes and the property of the parameter is the standalone resolution
\* of T, the result of parse_annotation(T).
C9_StandaloneTypeVar ==
    (op = "parse_function" /\ cls = None /\ OthersResolve) =>
        \A i \in 1..Len(Params) :
            TypeVarParam(i) =>
                /\ result.ok = Standalone(i).ok
                /\ result.ok => Property(i) = Standalone(i).node

IsTypeVar(d) == Kind(d) = "TypeVar"

\* the formal type parameters of the ultimate generic ancestor of c
RECURSIVE Formals(_)
Formals(c) ==
    LET alias == get_generic_alias(c)
    IN  IF alias.origin = Generic THEN alias.args ELSE Formals(alias.origin)

\* the type arguments bound to Formals(c) along the chain of generic bases of c, the
\* arguments of each base being substituted for the free type variables of its origin
RECURSIVE Bound(_)
Bound(c) ==
    LET alias == get_generic_alias(c)
    IN  IF alias.origin = Generic THEN alias.args
        ELSE LET up == Bound(alias.origin)
                 free == SelectSeq(get_generic_alias(alias.origin).args, IsTypeVar)
                 at(x) == CHOOSE p \in 1..Len(free) : free[p] = x
             IN  [i \in 1..Len(up) |->
                     IF \E p \in 1..Len(free) : free[p] = up[i] /\ p <= Len(alias.args)
                     THEN alias.args[at(up[i])]
                     ELSE up[i]]

\* what the type variable of the i-th parameter stands for in the owner type
BoundTo(i) ==
    LET tv == Params[i].annotation
    IN  IF get_generic_alias(cls) = None THEN tv
        ELSE IF \E p \in 1..Len(Formals(cls)) : Formals(cls)[p] = tv
        THEN Bound(cls)[CHOOSE p \in 1..Len(Formals(cls)) : Formals(cls)[p] = tv]
        ELSE tv

Expected(i) == parse_annotation(Env, BoundTo(i), declared_default(Params[i]))

\* C10: for a method of an owner type, a parameter annotated with a type variable T
\* resolves to the schema of the type argument bound to T along the chain of generic
\* bases of the owner, and to the standalone resolution of T when T is not a formal
\* parameter of the ultimate generic ancestor or the owner has no generic base.
C10_GenericOwner ==
    (op = "parse_function" /\ cls # None /\ OthersResolve) =>
        \A i \in 1..Len(Params) :
            TypeVarParam(i) =>
                /\ result.ok = (\A j \in 1..Len(Params) : TypeVarParam(j) => Expected(j).ok)
                /\ result.ok => Property(i) = Expected(i).node

(***************************************************************************)
(* Properties of the container, union and record rules                     *)
(***************************************************************************)

\* the resolution of the descriptor d by the parser of the current state
Resolved(d) == parse_annotation(Env, d, Ellipsis)

\* parse_annotation has returned the node built by the rule r
BuiltBy(r) == op = "parse_annotation" /\ result.ok /\ result.rule = r

\* the node is an AnyOf
IsAnyOf(node) == node # None /\ node.cls = "AnyOf"

\* the items a list-like descriptor with the type argument arg is to have
ItemsOf(arg) ==
    IF is_union(Subst(arg)) /\ IsAnyOf(Resolved(arg).node)
    THEN getattr(Resolved(arg).node, "items").l[1]
    ELSE Resolved(arg).node

\* the array a list-like or set-like descriptor is to resolve to
ArrayOf(a, rule) ==
    LET items == IF has_args(a) THEN <<KV("items", ItemsOf(get_args(a)[1]))>> ELSE <<>>
        unique == IF rule = "SetParser" THEN <<KV("uniqueItems", PyBool(TRUE))>> ELSE <<>>
    IN  New("Array", items \o unique)

\* the type argument of the list-like descriptor is one the statement speaks of: a union,
\* or a descriptor that does not resolve to an AnyOf
ListArgument(a) ==
    has_args(a) => (is_union(Subst(get_args(a)[1])) \/ ~IsAnyOf(Resolved(get_args(a)[1]).node))

\* C11: a list-like descriptor without type arguments resolves to a bare array; with a type
\* argument that does not resolve to an AnyOf, items is the resolution of the argument; with
\* a union argument, items is the node of the first member of the union and never an AnyOf;
\* a set-like descriptor resolves to the same array with uniqueItems = true.
C11_ListLike ==
    ((BuiltBy("ListParser") \/ BuiltBy("SetParser")) /\ ListArgument(Subst(annotation))) =>
        /\ result.node = WithDefault(ArrayOf(Subst(annotation), result.rule), default)
        /\ ~IsAnyOf(getattr(result.node, "items"))
        /\ (~has_args(Subst(annotation)) /\ result.rule = "ListParser" /\ default = Ellipsis
              /\ repr # None) => repr = Dict(<<KV("type", Str("array"))>>)

\* the descriptor is tuple-like: the tuple rule is the one that matches it
TupleLike(a) == can_parse("TupleParser", a)

\* every type argument of the descriptor resolves
ArgumentsResolve(a) ==
    \A i \in 1..Len(get_args(a)) : get_args(a)[i] # Ellipsis => Resolved(get_args(a)[i]).ok

\* the tuple-like descriptor is of the form (T, ellipsis)
Homogeneous(a) == Len(get_args(a)) = 2 /\ get_args(a)[2] = Ellipsis

\* the array a tuple-like descriptor is to resolve to
TupleOf(a) ==
    IF Len(get_args(a)) = 0 THEN New("Array", <<>>)
    ELSE IF Homogeneous(a) THEN New("Array", <<KV("items", ItemsOf(get_args(a)[1]))>>)
    ELSE New("Array", <<KV("prefixItems",
             List([i \in 1..Len(get_args(a)) |-> Resolved(get_args(a)[i]).node]))>>)

\* C12: a tuple-like descriptor with n >= 1 type arguments that is not of the form
\* (T, ellipsis) resolves to an array whose prefixItems are the resolutions of the n
\* arguments in order, without items; with zero type arguments or with (T, ellipsis) it
\* resolves as a list-like descriptor does, without prefixItems.
C12_TupleLike ==
    (op = "parse_annotation" /\ TupleLike(Subst(annotation))
        /\ ArgumentsResolve(Subst(annotation))) =>
        /\ result.ok
        /\ result.node = WithDefault(TupleOf(Subst(annotation)), default)

\* the descriptor is mapping-like: the mapping rule is the one that matches it
MappingLike(a) == can_parse("DictParser", a)

\* the key and the value type of a mapping-like descriptor with type arguments
KeyType(a) == get_args(a)[1]

ValueType(a) == get_args(a)[2]

StringKey(a) == KeyType(a) \in {Class("str"), Class("bytes"), AnyStr}

\* the mapping-like descriptor names a value type to resolve
TypedValues(a) == Len(get_args(a)) > 1 /\ ValueType(a) \notin {typing_Any, Ellipsis}

\* the object a mapping-like descriptor is to resolve to
MappingOf(a) ==
    IF TypedValues(a)
    THEN New("Object", <<KV("patternProperties",
                            Dict(<<KV("^.+$", Resolved(ValueType(a)).node)>>))>>)
    ELSE New("Object", <<>>)

\* C13: for a mapping-like descriptor, strict mode raises IncompatibleTypesError when the
\* key type is not str, bytes or AnyStr, before the value type is resolved, and lenient
\* mode does not check the key type; otherwise a value type other than Any and the
\* ellipsis gives patternProperties {"^.+$": resolution of the value type}, and Any, the
\* ellipsis or no type arguments give the bare {"type": "object"}.
C13_MappingLike ==
    (op = "parse_annotation" /\ MappingLike(Subst(annotation))) =>
        IF Len(get_args(Subst(annotation))) > 1 /\ parser.strict
            /\ ~StringKey(Subst(annotation))
        THEN /\ ~result.ok
             /\ result.err = "IncompatibleTypesError"
             /\ result.seen = {Subst(annotation)}
        ELSE IF TypedValues(Subst(annotation)) /\ ~Resolved(ValueType(Subst(annotation))).ok
        THEN ~result.ok
        ELSE /\ result.ok
             /\ result.node = WithDefault(MappingOf(Subst(annotation)), default)
             /\ (repr # None /\ default = Ellipsis /\ ~TypedValues(Subst(annotation))) =>
                    repr = Dict(<<KV("type", Str("object"))>>)

\* strict mode has refused a mapping for its key type, the value type of which would not
\* have resolved either
C13_Witness ==
    /\ op = "parse_annotation"
    /\ parser.strict
    /\ MappingLike(Subst(annotation))
    /\ Len(get_args(Subst(annotation))) > 1
    /\ ~StringKey(Subst(annotation))
    /\ ~Resolved(ValueType(Subst(annotation))).ok
    /\ result.err = "IncompatibleTypesError"
    /\ result.seen = {Subst(annotation)}

\* the alternatives of a union descriptor
Alternatives(a) == get_args(a)

\* the canonical forms of the resolutions of the alternatives, in declaration order
Members(a) ==
    List([i \in 1..Len(Alternatives(a)) |-> json_repr(Resolved(Alternatives(a)[i]).node)])

\* the canonical form of the Null node
NullForm == Dict(<<KV("enum", List(<<None>>))>>)

\* C14: a union descriptor resolves to an AnyOf node whose canonical form is
\* {"anyOf": [r1, ..., rn]}, ri the canonical form of the resolution of the i-th
\* alternative, in declaration order; a None alternative is the member {"enum": [null]} at
\* its position, and the canonical form has no oneOf.
C14_Union ==
    (op = "parse_annotation" /\ is_union(Subst(annotation))
        /\ ArgumentsResolve(Subst(annotation))) =>
        /\ result.ok
        /\ result.rule = "UnionParser"
        /\ result.node.cls = "AnyOf"
        /\ repr # None =>
              /\ ~HasKey(repr.kv, "oneOf")
              /\ HasKey(repr.kv, "anyOf")
              /\ Get(repr.kv, "anyOf") = Members(Subst(annotation))
              /\ default = Ellipsis => repr = Dict(<<KV("anyOf", Members(Subst(annotation)))>>)
              /\ \A i \in 1..Len(Alternatives(Subst(annotation))) :
                    Alternatives(Subst(annotation))[i] = Class("NoneType") =>
                        Get(repr.kv, "anyOf").l[i] = NullForm

\* a union whose first alternative is None, followed by others, has its canonical form
C14_Witness ==
    /\ op = "parse_annotation"
    /\ is_union(Subst(annotation))
    /\ Len(Alternatives(Subst(annotation))) > 2
    /\ Alternatives(Subst(annotation))[1] = Class("NoneType")
    /\ repr # None
    /\ Get(repr.kv, "anyOf").l[1] = NullForm

\* the field annotation carries the marker m ("typing.Required", "typing.NotRequired")
Marked(arg, m) == get_origin(arg) = Class(m)

\* the field annotation without its marker
Unwrapped(arg) ==
    IF Marked(arg, "typing.Required") \/ Marked(arg, "typing.NotRequired")
    THEN get_args(arg)[1] ELSE arg

\* the i-th declared field of the record a is to be listed in required
RequiredField(a, i) ==
    \/ Marked(a.fields[i].v, "typing.Required")
    \/ /\ ~Marked(a.fields[i].v, "typing.NotRequired")
       /\ (a.total \/ a.fields[i].k \in a.required_keys)

\* every field of the record resolves
FieldsResolve(a) == \A i \in 1..Len(a.fields) : Resolved(Unwrapped(a.fields[i].v)).ok

\* the names of the fields of a from the i-th on that are to be listed in required
RECURSIVE RequiredNames(_, _)
RequiredNames(a, i) ==
    IF i > Len(a.fields) THEN <<>>
    ELSE (IF RequiredField(a, i) THEN <<Str(a.fields[i].k)>> ELSE <<>>)
         \o RequiredNames(a, i + 1)

\* C15: a TypedDict resolves to an object whose properties are the declared fields in
\* declaration order, each with the resolution of its annotation without the
\* Required/NotRequired wrapper; a field is in required iff it is marked Required, or it is
\* not marked NotRequired and the record is total or has the field in its required keys;
\* required is emitted even when empty, and additionalProperties is false.
C15_TypedDict ==
    (op = "parse_annotation" /\ is_typeddict(Subst(annotation))
        /\ FieldsResolve(Subst(annotation))) =>
        LET a == Subst(annotation)
        IN  /\ result.ok
            /\ getattr(result.node, "properties") =
                  Dict([i \in 1..Len(a.fields) |->
                          KV(a.fields[i].k, Resolved(Unwrapped(a.fields[i].v)).node)])
            /\ getattr(result.node, "required") =
                  List(RequiredNames(a, 1))
            /\ getattr(result.node, "additionalProperties") = PyBool(FALSE)
            /\ repr # None =>
                  /\ HasKey(repr.kv, "required")
                  /\ Get(repr.kv, "required") = getattr(result.node, "required")
                  /\ Get(repr.kv, "additionalProperties") = PyBool(FALSE)
                  /\ Get(repr.kv, "properties").t = "dict"

\* a total record with a field marked NotRequired has its canonical form, and the marker
\* has won over the total flag
C15_Witness ==
    /\ op = "parse_annotation"
    /\ is_typeddict(Subst(annotation))
    /\ Subst(annotation).total
    /\ \E i \in 1..Len(Subst(annotation).fields) :
          /\ Marked(Subst(annotation).fields[i].v, "typing.NotRequired")
          /\ repr # None
          /\ \A j \in 1..Len(Get(repr.kv, "required").l) :
                Get(repr.kv, "required").l[j] # Str(Subst(annotation).fields[i].k)

\* the node of the supertype of the alias a, re-titled with the name of the alias
Retitled(a) == setattr(Resolved(a.supertype).node, "title", Str(a.n))

\* parse_annotation was called with a NewType
NewTypeCall == op = "parse_annotation" /\ Kind(Subst(annotation)) = "NewType"

\* C16 as stated: a strict parser does not select the NewType rule and raises
\* IncompatibleTypesError for a NewType; a lenient parser resolves the supertype and
\* re-titles the node with the name of the alias.
C16_Original ==
    NewTypeCall =>
        IF parser.strict
        THEN ~result.ok /\ result.err = "IncompatibleTypesError"
        ELSE Resolved(Subst(annotation).supertype).ok =>
                result.ok /\ result.node = WithDefault(Retitled(Subst(annotation)), default)

\* C16: the NewType rule is eligible in strict and in lenient mode: a parser of either mode
\* selects it for a NewType, resolves the supertype and re-titles the node with the name of
\* the alias, and fails exactly as the resolution of the supertype fails.
C16_NewType ==
    /\ RuleStrict("NewTypeParser")
    /\ NewTypeCall =>
          IF Resolved(Subst(annotation).supertype).ok
          THEN /\ result.ok
               /\ result.rule = "NewTypeParser"
               /\ result.node = WithDefault(Retitled(Subst(annotation)), default)
          ELSE /\ ~result.ok
               /\ result.err = Resolved(Subst(annotation).supertype).err
               /\ "NewTypeParser" \in result.used

\* a strict parser has resolved a NewType and the canonical form carries the alias's name
C16_Witness ==
    /\ NewTypeCall
    /\ parser.strict
    /\ result.rule = "NewTypeParser"
    /\ repr # None
    /\ HasKey(repr.kv, "title")
    /\ Get(repr.kv, "title") = Str(Subst(annotation).n)

(***************************************************************************)
(* Properties of the dataclass rule                                        *)
(***************************************************************************)

\* parse_annotation has resolved a dataclass
DataclassCall == BuiltBy("DataclassParser") /\ Kind(Subst(annotation)) = "Dataclass"

\* the name starts with the non-empty private prefix of the parser
PrivateName(name) ==
    parser.private_arg_prefix # "" /\ startswith(name, parser.private_arg_prefix)

\* the fields of the dataclass from the i-th on that the configured prefix does not exclude
RECURSIVE Public(_, _)
Public(fields, i) ==
    IF i > Len(fields) THEN <<>>
    ELSE (IF PrivateName(fields[i].name) THEN <<>> ELSE <<fields[i]>>) \o Public(fields, i + 1)

\* the keys of a dict, in order
KeysOf(d) == [i \in 1..Len(d.kv) |-> d.kv[i].k]

\* C17: a lenient parser constructed with private_arg_prefix = p resolves a dataclass to
\* an object whose properties are exactly the fields whose names do not start with p, and
\* whose required names no other field.
C17_PrivatePrefix ==
    DataclassCall =>
        LET kept == Public(Subst(annotation).fields, 1)
        IN  /\ KeysOf(getattr(result.node, "properties")) =
                  [i \in 1..Len(kept) |-> kept[i].name]
            /\ \A j \in 1..Len(getattr(result.node, "required").l) :
                  \E i \in 1..Len(kept) :
                      getattr(result.node, "required").l[j] = Str(kept[i].name)

\* the fields of the dataclass from the i-th on that the resolved object lists
RECURSIVE Listed(_, _)
Listed(fields, i) ==
    IF i > Len(fields) THEN <<>>
    ELSE (IF HasKey(getattr(result.node, "properties").kv, fields[i].name)
          THEN <<fields[i]>> ELSE <<>>) \o Listed(fields, i + 1)

\* the field declares neither a default value nor a default factory
NoDefault(f) == f.default = MISSING /\ f.default_factory = MISSING

\* the names of the fields without a declared default, in order
RECURSIVE Undefaulted(_)
Undefaulted(fields) ==
    IF Len(fields) = 0 THEN <<>>
    ELSE (IF NoDefault(Head(fields)) THEN <<Str(Head(fields).name)>> ELSE <<>>)
         \o Undefaulted(Tail(fields))

\* C18: for a dataclass resolved by a lenient parser, a listed field is in required iff
\* it declares neither a default value nor a default factory; a field with a default
\* value carries it as the default of its node; properties and required keep the
\* declaration order, and additionalProperties is false.
C18_DataclassRequired ==
    DataclassCall =>
        LET listed == Listed(Subst(annotation).fields, 1)
            properties == getattr(result.node, "properties")
        IN  /\ KeysOf(properties) = [i \in 1..Len(listed) |-> listed[i].name]
            /\ getattr(result.node, "required") = List(Undefaulted(listed))
            /\ \A i \in 1..Len(listed) :
                  listed[i].default # MISSING =>
                      getattr(properties.kv[i].v, "default") = listed[i].default
            /\ getattr(result.node, "additionalProperties") = PyBool(FALSE)

(***************************************************************************)
(* Properties of the node constructors                                     *)
(***************************************************************************)

\* the format of the string alias class
FixedFormat(c) ==
    CASE c = "Date" -> Str("date")
      [] c = "DateTime" -> Str("date-time")
      [] c = "GUID" -> Str("uuid")
      [] c = "Email" -> Str("email")

\* C19: no instance of Date, DateTime, GUID or Email is constructed whose format, in the
\* node or in its canonical form, is another than "date", "date-time", "uuid", "email".
C19_FixedFormat ==
    (op = "construct" /\ result.ok /\ result.node.cls \in StringAliases) =>
        /\ getattr(result.node, "format") = FixedFormat(result.node.cls)
        /\ repr # None => Get(repr.kv, "format") = FixedFormat(result.node.cls)

(***************************************************************************)
(* Errors                                                                  *)
(***************************************************************************)

\* C20: parse_annotation and parse_function return a result or raise
\* IncompatibleTypesError, never an error of another kind.
C20_SingleErrorKind ==
    (op \in {"parse_annotation", "parse_function"} /\ ~result.ok) =>
        result.err = "IncompatibleTypesError"

(***************************************************************************)
(* Termination                                                             *)
(***************************************************************************)

\* the name table of the parser leads from a record back to the record itself
SelfReferential == \E i \in 1..Len(parser.locals) : parser.locals[i].v \in {Node, Branch}

\* C21: the recursion of parse_annotation is bounded by the engine: every call, the
\* resolution of a self-referential record included, ends with a result (the inner
\* reference left as a placeholder) or with an explicit failure of the engine, and never
\* recurses until the call stack of the interpreter is full.
C21_BoundedRecursion ==
    op = "parse_annotation" =>
        (result.ok \/ (result.err # "RecursionError" /\ result.err # ""))

-----------------------------------------------------------------------------
(* parse_class                                                             *)

\* the attribute of the parsed class at index i is a method: an instance method, a class
\* method or a static method
IsMethod(i) == "ftype" \in DOMAIN cls.vars[i].v

\* the name of the attribute starts with the non-empty private prefix of the parser
PrivateMember(i) ==
    parser.private_arg_prefix # "" /\ startswith(cls.vars[i].k, parser.private_arg_prefix)

\* the indices of the methods of the parsed class that are not private, in definition order
PublicMethods ==
    SelectSeq([i \in 1..Len(cls.vars) |-> i], LAMBDA i : IsMethod(i) /\ ~PrivateMember(i))

\* the names of the parameters of method m that are not private and not the receiver: the
\* first parameter of an instance or class method is the receiver, that of a static
\* method is not
ModeledParameters(m) ==
    LET kept == SelectSeq([j \in 1..Len(m.params) |-> j],
                          LAMBDA j : /\ ~(j = 1 /\ m.ftype # "staticmethod")
                                     /\ ~(/\ parser.private_arg_prefix # ""
                                          /\ startswith(m.params[j].name,
                                                        parser.private_arg_prefix)))
    IN  [k \in 1..Len(kept) |-> m.params[kept[k]].name]

\* the entry models exactly the parameters named: kwargs is None when there is none
ModelsExactly(entry, names) ==
    IF names = <<>> THEN getattr(entry, "kwargs") = None
    ELSE /\ getattr(entry, "kwargs") # None
         /\ KeysOf(getattr(getattr(entry, "kwargs"), "properties")) = names

\* C22: parse_class(C) returns one entry for every method defined in C whose name does
\* not start with the private prefix, instance methods, class methods and static methods
\* alike, and each entry's kwargs models exactly the non-private, non-receiver parameters
\* of the method.
C22_ParseClass ==
    (op = "parse_class" /\ result.ok) =>
        /\ KeysOf(result.node) = [k \in 1..Len(PublicMethods) |-> cls.vars[PublicMethods[k]].k]
        /\ \A k \in 1..Len(PublicMethods) :
              HasKey(result.node.kv, cls.vars[PublicMethods[k]].k) =>
                  ModelsExactly(Get(result.node.kv, cls.vars[PublicMethods[k]].k),
                                ModeledParameters(cls.vars[PublicMethods[k]].v))

\* the same for the classes all of whose public methods are instance methods
C22_InstanceMethods ==
    (/\ op = "parse_class"
     /\ \A k \in 1..Len(PublicMethods) : cls.vars[PublicMethods[k]].v.ftype = "function")
        => C22_ParseClass

-----------------------------------------------------------------------------
(* The properties of an object node in its canonical form                  *)

\* an Object node with a properties map was produced and its canonical form taken
ObjectForm ==
    /\ op \in {"parse_annotation", "parse_function"}
    /\ result.ok
    /\ repr # None
    /\ Subject.t = "object"
    /\ Subject.cls = "Object"
    /\ getattr(Subject, "properties") # None

\* the names of the emitted "properties"
Emitted == IF HasKey(repr.kv, "properties") THEN KeysOf(Get(repr.kv, "properties")) ELSE <<>>

\* the names of the emitted "required"
EmittedRequired ==
    IF HasKey(repr.kv, "required")
    THEN [i \in 1..Len(Get(repr.kv, "required").l) |-> Get(repr.kv, "required").l[i].s]
    ELSE <<>>

Range(seq) == {seq[i] : i \in 1..Len(seq)}

\* C23: in the canonical form of every Object node produced by the engine, every name
\* listed in "required" is a key of "properties", and every field or parameter placed in
\* the properties map of the node appears in the emitted "properties".
C23_PropertiesKept ==
    ObjectForm =>
        /\ Range(EmittedRequired) \subseteq Range(Emitted)
        /\ Emitted = KeysOf(getattr(Subject, "properties"))

\* the same for the nodes none of whose properties has a name that starts with "_"
C23_PublicNames ==
    (/\ ObjectForm
     /\ \A name \in Range(KeysOf(getattr(Subject, "properties"))) : ~startswith(name, "_"))
        => C23_PropertiesKept

====
